---- MODULE Spec2Model ----
(***************************************************************************)
(* Model of the gitrepo-downloader backend (backend/main.py):              *)
(*   parse_github_repo_url      the repository reference parser            *)
(*   _fetch_contents_recursive  the recursive contents enumerator          *)
(*   download_file              the single-file proxy endpoint             *)
(*   download_all_files         the zip-everything endpoint                *)
(* Strings are sequences of one-character strings, so that strip, split,   *)
(* startswith, endswith and urlparse are computed character by character.  *)
(* Every outbound session.get is one step against an explicit model of the *)
(* upstream (a file tree, the status of each request, the reset header).   *)
(***************************************************************************)
EXTENDS Integers, Sequences, FiniteSets, TLC

VARIABLES
    url,        \* the string handed to the operation (repo_url or url)
    ref,        \* the (o, r, form) the reference was built from, or None
    parsed,     \* the pair returned by parse_github_repo_url, << >> before
    gh,         \* the upstream: the repository tree and how requests answer
    dlStatus,   \* upstream status of the single-file fetch
    owner,      \* arguments of _fetch_contents_recursive
    repo,
    start,      \* node the top-level enumeration starts at (0 = repo root)
    pc,         \* position of the running operation
    stack,      \* call stack of _fetch_contents_recursive: [items, files]
    file_list,  \* value returned by the top-level enumeration
    idx,        \* position of the for-loop of download_all_files
    zip,        \* entries written to the archive so far
    log,        \* every outbound request issued, in order
    exc,        \* the HTTPException raised, or None
    response    \* the value returned by an endpoint, or None

vars == <<url, ref, parsed, gh, dlStatus, owner, repo, start, pc, stack,
          file_list, idx, zip, log, exc, response>>

\* Python's None, for the variables that hold a record
None == [none |-> TRUE]

----------------------------------------------------------------------------
(* Bounds of the explored inputs.                                          *)

MaxTokens == 3        \* tokens concatenated into a parser input
MaxNameTokens == 2    \* tokens concatenated into an owner or repo name
MaxNodes == 3         \* entries of the repository tree below the root

----------------------------------------------------------------------------
(* Python string operations, character by character.                       *)

Whitespace == {" "}

LowerChar(c) ==
    CASE c = "G" -> "g"
      [] c = "H" -> "h"
      [] OTHER -> c

Lower(s) == [i \in 1..Len(s) |-> LowerChar(s[i])]

StartsWith(s, p) == Len(s) >= Len(p) /\ SubSeq(s, 1, Len(p)) = p

EndsWith(s, p) == Len(s) >= Len(p) /\ SubSeq(s, Len(s) - Len(p) + 1, Len(s)) = p

\* s.find(c) + 1 for a one-character c: position of the first c, 0 if none
Find(s, c) ==
    IF \E i \in 1..Len(s) : s[i] = c
    THEN CHOOSE i \in 1..Len(s) : s[i] = c /\ \A j \in 1..(i-1) : s[j] # c
    ELSE 0

\* sub in s
Contains(s, sub) ==
    \E i \in 0..(Len(s) - Len(sub)) : SubSeq(s, i + 1, i + Len(sub)) = sub

\* s.lstrip(chars)
LStrip(s, chars) ==
    IF \A i \in 1..Len(s) : s[i] \in chars
    THEN << >>
    ELSE LET k == CHOOSE i \in 1..Len(s) :
                      s[i] \notin chars /\ \A j \in 1..(i-1) : s[j] \in chars
         IN SubSeq(s, k, Len(s))

\* s.rstrip(chars)
RStrip(s, chars) ==
    IF \A i \in 1..Len(s) : s[i] \in chars
    THEN << >>
    ELSE LET k == CHOOSE i \in 1..Len(s) :
                      s[i] \notin chars /\ \A j \in (i+1)..Len(s) : s[j] \in chars
         IN SubSeq(s, 1, k)

\* s.strip()
Strip(s) == RStrip(LStrip(s, Whitespace), Whitespace)

\* s.split(c): always at least one part
RECURSIVE Split(_, _)
Split(s, c) ==
    LET i == Find(s, c)
    IN IF i = 0 THEN << s >>
       ELSE << SubSeq(s, 1, i - 1) >> \o Split(SubSeq(s, i + 1, Len(s)), c)

\* s.split(c, 1): one or two parts
SplitOnce(s, c) ==
    LET i == Find(s, c)
    IN IF i = 0 THEN << s >>
       ELSE << SubSeq(s, 1, i - 1), SubSeq(s, i + 1, Len(s)) >>

RECURSIVE Concat(_)
Concat(ss) == IF ss = << >> THEN << >> ELSE Head(ss) \o Concat(Tail(ss))

----------------------------------------------------------------------------
(* urllib.parse.urlparse, as far as parse_github_repo_url reads it: the    *)
(* scheme is split off at the first ':' when everything before it is a     *)
(* scheme character and the first is a letter; a following '//' opens the  *)
(* netloc, which ends at the first '/', '?' or '#'; the fragment and the   *)
(* query are cut from what remains, which is the path.                     *)

Letters == {"a","b","c","d","e","f","g","h","i","j","k","l","m","n","o","p",
            "q","r","s","t","u","v","w","x","y","z","G","H"}

SchemeChars == Letters \cup {"+", "-", "."}

IsScheme(s) ==
    /\ Len(s) > 0
    /\ s[1] \in Letters
    /\ \A i \in 1..Len(s) : s[i] \in SchemeChars

\* first position of any of '/?#' at or after position from, Len(s)+1 if none
NetlocEnd(s, from) ==
    IF \E i \in from..Len(s) : s[i] \in {"/", "?", "#"}
    THEN CHOOSE i \in from..Len(s) :
             s[i] \in {"/", "?", "#"} /\ \A j \in from..(i-1) : s[j] \notin {"/", "?", "#"}
    ELSE Len(s) + 1

urlparse(u) ==
    LET i      == Find(u, ":")
        hasSch == i > 1 /\ IsScheme(SubSeq(u, 1, i - 1))
        scheme == IF hasSch THEN Lower(SubSeq(u, 1, i - 1)) ELSE << >>
        rest   == IF hasSch THEN SubSeq(u, i + 1, Len(u)) ELSE u
        hasNet == StartsWith(rest, <<"/", "/">>)
        delim  == NetlocEnd(rest, 3)
        netloc == IF hasNet THEN SubSeq(rest, 3, delim - 1) ELSE << >>
        rest2  == IF hasNet THEN SubSeq(rest, delim, Len(rest)) ELSE rest
        noFrag == SplitOnce(rest2, "#")[1]
        path   == SplitOnce(noFrag, "?")[1]
    IN [scheme |-> scheme, netloc |-> netloc, path |-> path]

----------------------------------------------------------------------------
(* fastapi.HTTPException and the two outcomes of a call.                   *)

\* the detail text of an exception; a formatted text keeps its argument
Detail(msg) == [msg |-> msg]

HTTPException(code, det) == [status_code |-> code, detail |-> det]

Raise(e) == [raised |-> TRUE, exc |-> e]

Return(v) == [raised |-> FALSE, value |-> v]

----------------------------------------------------------------------------
(* parse_github_repo_url                                                   *)

GitAt == <<"g","i","t","@">>
GithubCom == <<"g","i","t","h","u","b",".","c","o","m">>
DotGit == <<".","g","i","t">>

InvalidRepoUrl == HTTPException(400, Detail("Invalid GitHub repo URL"))

\* the segment the owner and the repo are read from, or a raised exception
UserRepo(u) ==
    IF StartsWith(u, GitAt)
    THEN LET sp == SplitOnce(u, ":")
         IN IF Len(sp) < 2 THEN Raise(InvalidRepoUrl) ELSE Return(sp[2])
    ELSE LET p == urlparse(u)
         IN IF p.netloc # << >> /\ Contains(Lower(p.netloc), GithubCom)
            THEN Return(LStrip(p.path, {"/"}))
            ELSE Return(u)

\* the check of the two leading components of the split segment
PartsInvalid(parts) ==
    Len(parts) < 2 \/ parts[1] = << >> \/ parts[2] = << >>

\* variant: the suffix is left on the repo
StripDotGit_Keep(r) == r

\* repo with the .git suffix removed when present
StripDotGit(r) ==
    IF EndsWith(r, DotGit) THEN SubSeq(r, 1, Len(r) - 4) ELSE r

parse_github_repo_url(u0) ==
    IF u0 = << >> THEN Raise(InvalidRepoUrl)
    ELSE LET u  == Strip(u0)
             ur == UserRepo(u)
         IN IF ur.raised THEN ur
            ELSE LET parts == Split(ur.value, "/")
                 IN IF PartsInvalid(parts) THEN Raise(InvalidRepoUrl)
                    ELSE Return(<< parts[1], StripDotGit(parts[2]) >>)

----------------------------------------------------------------------------
(* Inputs of the parser: concatenations of up to MaxTokens tokens.         *)

Tokens == {
    <<"h","t","t","p","s",":","/","/","g","i","t","h","u","b",".","c","o","m","/">>,
    <<"h","t","t","p","s",":","/","/","G","i","t","H","u","b",".","c","o","m","/">>,
    <<"h","t","t","p","s",":","/","/","g","i","t","l","a","b",".","c","o","m","/">>,
    <<"g","i","t","@","g","i","t","h","u","b",".","c","o","m",":">>,
    <<"o">>, <<"r">>, DotGit, <<"/">>, <<"#">>, <<" ">> }

TokenSeqs(n) == UNION { [1..k -> Tokens] : k \in 0..n }

ParserInputs == { Concat(ts) : ts \in TokenSeqs(MaxTokens) }

\* the parser applied to the input
Parse ==
    /\ pc = "parse"
    /\ LET p == parse_github_repo_url(url)
       IN /\ parsed' = IF p.raised THEN << >> ELSE p.value
          /\ exc' = IF p.raised THEN p.exc ELSE None
    /\ pc' = "parsed"
    /\ UNCHANGED <<url, ref, gh, dlStatus, owner, repo, start, stack,
                   file_list, idx, zip, log, response>>

Idle == [n |-> 0]

InitParse ==
    /\ url \in ParserInputs
    /\ ref = None
    /\ parsed = << >>
    /\ gh = Idle
    /\ dlStatus = 0
    /\ owner = << >> /\ repo = << >> /\ start = 0
    /\ pc = "parse"
    /\ stack = << >>
    /\ file_list = << >>
    /\ idx = 0
    /\ zip = << >>
    /\ log = << >>
    /\ exc = None
    /\ response = None

NextParse == Parse

SpecParse == InitParse /\ [][NextParse]_vars

----------------------------------------------------------------------------
\* C2: every input is either rejected with InvalidReference (400) or yields
\* an owner and a name that are both non-empty, the name not ending in
\* '.git'.
C2_RepoRefWellFormed ==
    pc = "parsed" =>
        \/ exc # None /\ exc.status_code = 400
        \/ /\ exc = None
           /\ parsed[1] # << >>
           /\ parsed[2] # << >>
           /\ ~EndsWith(parsed[2], DotGit)

----------------------------------------------------------------------------
(* The five documented reference forms, built from an owner and a repo.    *)

NameTokens == { <<"o">>, <<"-">>, DotGit, <<"#">>, GitAt }

Names == { Concat(ts) : ts \in UNION { [1..k -> NameTokens] : k \in 1..MaxNameTokens } }

HttpsGithub == <<"h","t","t","p","s",":","/","/","g","i","t","h","u","b",".","c","o","m","/">>
SshGithub == <<"g","i","t","@","g","i","t","h","u","b",".","c","o","m",":">>
TreeSuffix == <<"/","t","r","e","e","/","m","a","i","n","/","s","r","c">>

Forms == 1..5

Form(f, o, r) ==
    CASE f = 1 -> HttpsGithub \o o \o <<"/">> \o r
      [] f = 2 -> HttpsGithub \o o \o <<"/">> \o r \o DotGit
      [] f = 3 -> HttpsGithub \o o \o <<"/">> \o r \o TreeSuffix
      [] f = 4 -> SshGithub \o o \o <<"/">> \o r \o DotGit
      [] f = 5 -> o \o <<"/">> \o r

InitForms ==
    /\ ref \in [o : Names, r : Names, form : Forms]
    /\ url = Form(ref.form, ref.o, ref.r)
    /\ parsed = << >>
    /\ gh = Idle
    /\ dlStatus = 0
    /\ owner = << >> /\ repo = << >> /\ start = 0
    /\ pc = "parse"
    /\ stack = << >>
    /\ file_list = << >>
    /\ idx = 0
    /\ zip = << >>
    /\ log = << >>
    /\ exc = None
    /\ response = None

SpecForms == InitForms /\ [][NextParse]_vars

\* the characters of an owner or repository name on the hosting service
NameChars == Letters \cup {"-", "_", "."}

HostedName(n) == n # << >> /\ \A i \in 1..Len(n) : n[i] \in NameChars

\* C3 as stated: every owner and repo without '/', in each of the five
\* forms, parses to exactly that owner and that repo.
C3_AllFormsAnyName ==
    (pc = "parsed" /\ ref # None) =>
        exc = None /\ parsed = << ref.o, ref.r >>

\* C3 amended: for an owner and a repo made of the hosting service's name
\* characters, the repo not itself ending in '.git', each of the five forms
\* parses to exactly that owner and that repo.
C3_AllFormsHostedName ==
    (/\ pc = "parsed" /\ ref # None
     /\ HostedName(ref.o) /\ HostedName(ref.r) /\ ~EndsWith(ref.r, DotGit)) =>
        exc = None /\ parsed = << ref.o, ref.r >>

C3_Witness ==
    /\ pc = "parsed" /\ ref # None
    /\ HostedName(ref.o) /\ HostedName(ref.r) /\ ~EndsWith(ref.r, DotGit)
    /\ ref.form = 4
    /\ ref.o # ref.r
    /\ parsed = << ref.o, ref.r >>

----------------------------------------------------------------------------
(* The upstream.  The repository is a tree of nodes 1..n below the root 0; *)
(* a directory lists its children in increasing node number, which is the  *)
(* order the contents API returns them in.  At most one contents request   *)
(* is answered with a failure: the enumerator stops at the first one.      *)

EntryTypes == {"file", "dir", "symlink"}

Trees ==
    UNION { { [n |-> k, parent |-> p, type |-> t] :
                p \in { q \in [1..k -> 0..(k-1)] : \A i \in 1..k : q[i] < i },
                t \in [1..k -> EntryTypes] } : k \in 0..MaxNodes }

\* every entry lies in the root or in a directory
WellFormedTree(g) ==
    \A i \in 1..g.n : g.parent[i] = 0 \/ g.type[g.parent[i]] = "dir"

FileNodes(g) == { i \in 1..g.n : g.type[i] = "file" }

ResetHeaders == { <<"6","1">>, <<"9","0","0","0","0">> }

\* how the one failing contents request answers
Faults(g) ==
    { [node |-> i, status_code |-> s, headers |-> [x \in {} |-> << >>]] :
          i \in 0..g.n, s \in {404, 403, 500} }
    \cup
    { [node |-> i, status_code |-> 403, headers |-> [reset |-> h]] :
          i \in 0..g.n, h \in ResetHeaders }

HostedOwner == <<"o">>
HostedRepo == <<"r">>

RECURSIVE PathOf(_)
\* the repository-relative path of a node: the names from the root down
PathOf(i) == IF i = 0 THEN << >> ELSE Append(PathOf(gh.parent[i]), i)

NodeAt(path) == IF path = << >> THEN 0 ELSE path[Len(path)]

PathExists(path) ==
    \E i \in 0..gh.n : PathOf(i) = path

\* children of a directory, in the order of the listing
Listing(d) == SelectSeq([i \in 1..gh.n |-> i], LAMBDA i : gh.parent[i] = d)

RawUrl(i) == [raw |-> PathOf(i)]

\* the JSON object the contents API returns for one entry
Item(i) ==
    [type |-> gh.type[i], name |-> i, path |-> PathOf(i),
     download_url |-> IF i \in gh.noUrl THEN None ELSE RawUrl(i)]

ContentsUrl(ow, rp, path) == [api |-> "contents", owner |-> ow, repo |-> rp, path |-> path]

NoHeaders == [x \in {} |-> << >>]

\* the upstream's answer to session.get(url) on the contents endpoint
ContentsResponse(req) ==
    IF req.owner # HostedOwner \/ req.repo # HostedRepo \/ ~PathExists(req.path)
    THEN [status_code |-> 404, headers |-> NoHeaders, json |-> [kind |-> "none"]]
    ELSE LET i == NodeAt(req.path)
         IN IF gh.fault # None /\ gh.fault.node = i
            THEN [status_code |-> gh.fault.status_code, headers |-> gh.fault.headers,
                  json |-> [kind |-> "none"]]
            ELSE IF i = 0 \/ gh.type[i] = "dir"
            THEN [status_code |-> 200, headers |-> NoHeaders,
                  json |-> [kind |-> "list",
                            items |-> [k \in 1..Len(Listing(i)) |-> Item(Listing(i)[k])]]]
            ELSE [status_code |-> 200, headers |-> NoHeaders,
                  json |-> [kind |-> "dict", item |-> Item(i)]]

\* the bytes the upstream serves for a file
Content(path) == << "bytes", path >>

\* the upstream's answer to session.get(dl_url) on the raw-content host
RawResponse(dl_url) ==
    LET i == NodeAt(dl_url.raw)
    IN [status_code |-> gh.rawStatus[i], content |-> Content(dl_url.raw)]

----------------------------------------------------------------------------
(* int(reset), datetime.utcfromtimestamp(ts).strftime("%Y-%m-%d %H:%M:%S   *)
(* UTC"): computed for timestamps within January 1970, which is where the  *)
(* modelled reset headers lie.                                             *)

Digits == <<"0","1","2","3","4","5","6","7","8","9">>

DigitVal(c) == (CHOOSE k \in 1..10 : Digits[k] = c) - 1

RECURSIVE ParseInt(_)
ParseInt(ds) ==
    IF ds = << >> THEN 0
    ELSE 10 * ParseInt(SubSeq(ds, 1, Len(ds) - 1)) + DigitVal(ds[Len(ds)])

TwoDigits(k) == << Digits[(k \div 10) + 1], Digits[(k % 10) + 1] >>

FormatUtc(ts) ==
    <<"1","9","7","0","-","0","1","-">> \o TwoDigits(1 + ts \div 86400)
    \o <<" ">> \o TwoDigits((ts % 86400) \div 3600)
    \o <<":">> \o TwoDigits((ts % 3600) \div 60)
    \o <<":">> \o TwoDigits(ts % 60)
    \o <<" ","U","T","C">>

----------------------------------------------------------------------------
(* _fetch_contents_recursive                                               *)

\* dict.get(key, default)
Get(d, key, default) == IF key \in DOMAIN d THEN d[key] ELSE default

\* the detail of the 403 raised by the enumerator
ForbiddenDetail(resp) ==
    LET reset == Get(resp.headers, "reset", << >>)
    IN IF reset # << >>
       THEN [msg |-> "GitHub API rate limit exceeded. Limit resets at {reset_time}. Set GITHUB_TOKEN to increase limits.",
             reset_time |-> FormatUtc(ParseInt(reset))]
       ELSE Detail("GitHub API returned 403 Forbidden. Possibly rate-limited or repository is private. Set GITHUB_TOKEN env var if needed.")

\* variant: every failing status is reported as not found
ContentsError_AllNotFound(resp) ==
    IF resp.status_code # 200
    THEN HTTPException(404, Detail("Repository or path not found"))
    ELSE None

\* the exception the enumerator raises for a contents response, None for 200
ContentsError(resp) ==
    IF resp.status_code = 404
    THEN HTTPException(404, Detail("Repository or path not found"))
    ELSE IF resp.status_code = 403
    THEN HTTPException(403, ForbiddenDetail(resp))
    ELSE IF resp.status_code # 200
    THEN HTTPException(resp.status_code, Detail("GitHub API error"))
    ELSE None

\* the record appended to files for a file entry
FileEntry(item) ==
    [name |-> item.name,
     path |-> Get(item, "path", item.name),
     download_url |-> Get(item, "download_url", None)]

\* variant: the caller's list is replaced by the returned one
Deliver_Overwrite(ret, stk) ==
    /\ exc' = exc
    /\ IF stk = << >>
       THEN /\ file_list' = ret
            /\ stack' = << >>
            /\ pc' = "returned"
       ELSE /\ file_list' = file_list
            /\ stack' = [stk EXCEPT ![Len(stk)].files = ret]
            /\ pc' = "enum"

\* variant: the returned list is put in front of the caller's list
Deliver_Prepend(ret, stk) ==
    /\ exc' = exc
    /\ IF stk = << >>
       THEN /\ file_list' = ret
            /\ stack' = << >>
            /\ pc' = "returned"
       ELSE /\ file_list' = file_list
            /\ stack' = [stk EXCEPT ![Len(stk)].files = ret \o @]
            /\ pc' = "enum"

\* a call returns ret to the frames below it: the caller extends its files,
\* and the outermost call hands the list to whoever called the enumerator
Deliver(ret, stk) ==
    /\ exc' = exc
    /\ IF stk = << >>
       THEN /\ file_list' = ret
            /\ stack' = << >>
            /\ pc' = "returned"
       ELSE /\ file_list' = file_list
            /\ stack' = [stk EXCEPT ![Len(stk)].files = @ \o ret]
            /\ pc' = "enum"

\* the body of a call up to the loop: the request, the status checks, the
\* single-file case, and otherwise a new frame over the listed items
Enter(path, stk) ==
    LET req  == ContentsUrl(owner, repo, path)
        resp == ContentsResponse(req)
        err  == ContentsError(resp)
    IN /\ log' = Append(log, req)
       /\ IF err # None
          THEN /\ exc' = err
               /\ stack' = << >>
               /\ pc' = "raised"
               /\ file_list' = file_list
          ELSE IF resp.json.kind = "dict"
          THEN IF resp.json.item.type = "file"
               THEN Deliver(<< FileEntry(resp.json.item) >>, stk)
               ELSE \* iterating the keys of the object: item.get fails
                    /\ exc' = exc
                    /\ stack' = << >>
                    /\ pc' = "crashed"
                    /\ file_list' = file_list
          ELSE /\ exc' = exc
               /\ stack' = Append(stk, [items |-> resp.json.items, files |-> << >>])
               /\ pc' = "enum"
               /\ file_list' = file_list

\* the outermost call
FetchCall ==
    /\ pc = "call"
    /\ Enter(PathOf(start), << >>)
    /\ UNCHANGED <<url, ref, parsed, gh, dlStatus, owner, repo, start, idx, zip, response>>

\* one iteration of 'for item in items' in the innermost running call
FetchItem ==
    /\ pc = "enum"
    /\ stack[Len(stack)].items # << >>
    /\ LET top   == stack[Len(stack)]
           item  == Head(top.items)
           itype == Get(item, "type", "")
           rest  == [stack EXCEPT ![Len(stack)].items = Tail(@)]
       IN IF itype = "file"
          THEN /\ stack' = [rest EXCEPT ![Len(stack)].files = Append(@, FileEntry(item))]
               /\ UNCHANGED <<log, exc, pc, file_list>>
          ELSE IF itype = "dir"
          THEN Enter(item.path, rest)
          ELSE /\ stack' = rest
               /\ UNCHANGED <<log, exc, pc, file_list>>
    /\ UNCHANGED <<url, ref, parsed, gh, dlStatus, owner, repo, start, idx, zip, response>>

\* 'return files' of the innermost running call
FetchReturn ==
    /\ pc = "enum"
    /\ stack[Len(stack)].items = << >>
    /\ Deliver(stack[Len(stack)].files, SubSeq(stack, 1, Len(stack) - 1))
    /\ UNCHANGED <<url, ref, parsed, gh, dlStatus, owner, repo, start, idx, zip, response, log>>

\* the nodes a run from s can issue a contents request for
Requested(i, s) ==
    IF i = s \/ i = 0 THEN TRUE ELSE gh.type[i] = "dir"

InitEnum ==
    /\ \E g \in { t \in Trees : WellFormedTree(t) } :
       \E f \in {None} \cup Faults(g) :
          gh = [n |-> g.n, parent |-> g.parent, type |-> g.type, fault |-> f,
                noUrl |-> {}, rawStatus |-> [i \in FileNodes(g) |-> 200]]
    /\ start \in 0..gh.n
    /\ gh.fault # None => Requested(gh.fault.node, start)
    /\ url = << >>
    /\ ref = None
    /\ parsed = << >>
    /\ dlStatus = 0
    /\ owner = HostedOwner /\ repo = HostedRepo
    /\ pc = "call"
    /\ stack = << >>
    /\ file_list = << >>
    /\ idx = 0
    /\ zip = << >>
    /\ log = << >>
    /\ exc = None
    /\ response = None

NextEnum == FetchCall \/ FetchItem \/ FetchReturn

SpecEnum == InitEnum /\ [][NextEnum]_vars

----------------------------------------------------------------------------
(* download_file                                                           *)

TrustedPrefix ==
    <<"h","t","t","p","s",":","/","/","r","a","w",".","g","i","t","h","u","b",
      "u","s","e","r","c","o","n","t","e","n","t",".","c","o","m","/">>

\* variant: the trusted prefix may occur anywhere in the url
TrustedUrl_Contains(u) == Contains(u, TrustedPrefix)

\* the check made on the url before anything is fetched
TrustedUrl(u) == StartsWith(u, TrustedPrefix)

StreamingResponse(body, media, disposition) ==
    [status_code |-> 200, body |-> body, media_type |-> media,
     content_disposition |-> disposition]

\* the exception download_file raises for the status of the fetch, None for 200
DownloadError(status_code) ==
    IF status_code = 403
    THEN HTTPException(403, Detail("Forbidden when fetching file. Provide GITHUB_TOKEN if needed."))
    ELSE IF status_code # 200
    THEN HTTPException(status_code, Detail("File not found"))
    ELSE None

\* url.split("/")[-1]
Basename(u) == LET parts == Split(u, "/") IN parts[Len(parts)]

\* the check of the url, before any request
DownloadCheck ==
    /\ pc = "download"
    /\ IF ~TrustedUrl(url)
       THEN /\ exc' = HTTPException(400, Detail("Invalid download URL"))
            /\ pc' = "raised"
       ELSE /\ exc' = exc
            /\ pc' = "fetch"
    /\ UNCHANGED <<url, ref, parsed, gh, dlStatus, owner, repo, start, stack,
                   file_list, idx, zip, log, response>>

\* the fetch and the relay of its outcome
DownloadFetch ==
    /\ pc = "fetch"
    /\ log' = Append(log, [get |-> url])
    /\ LET err == DownloadError(dlStatus)
       IN IF err # None
          THEN /\ exc' = err
               /\ response' = response
               /\ pc' = "raised"
          ELSE /\ exc' = exc
               /\ response' = StreamingResponse(Content(url), "application/octet-stream",
                                                [filename |-> Basename(url)])
               /\ pc' = "responded"
    /\ UNCHANGED <<url, ref, parsed, gh, dlStatus, owner, repo, start, stack,
                   file_list, idx, zip>>

DownloadTokens == {
    TrustedPrefix,
    <<"h","t","t","p","s",":","/","/","r","a","w",".","g","i","t","h","u","b",
      "u","s","e","r","c","o","n","t","e","n","t",".","c","o","m">>,
    <<"h","t","t","p","s",":","/","/","e","v","i","l",".","c","o","m","/">>,
    <<"a",".","t","x","t">>,
    <<"/">> }

DownloadUrls ==
    { Concat(ts) : ts \in UNION { [1..k -> DownloadTokens] : k \in 0..MaxTokens } }

UpstreamStatuses == {200, 403, 404, 500}

InitDownload ==
    /\ url \in DownloadUrls
    /\ dlStatus \in UpstreamStatuses
    /\ ref = None
    /\ parsed = << >>
    /\ gh = Idle
    /\ owner = << >> /\ repo = << >> /\ start = 0
    /\ pc = "download"
    /\ stack = << >>
    /\ file_list = << >>
    /\ idx = 0
    /\ zip = << >>
    /\ log = << >>
    /\ exc = None
    /\ response = None

NextDownload == DownloadCheck \/ DownloadFetch

SpecDownload == InitDownload /\ [][NextDownload]_vars

----------------------------------------------------------------------------
(* download_all_files                                                      *)

\* parse_github_repo_url(repo_url), then the call of the enumerator
DownloadAllBegin ==
    /\ pc = "download_all"
    /\ LET p == parse_github_repo_url(url)
       IN IF p.raised
          THEN /\ exc' = p.exc
               /\ pc' = "raised"
               /\ UNCHANGED <<owner, repo>>
          ELSE /\ exc' = exc
               /\ owner' = p.value[1]
               /\ repo' = p.value[2]
               /\ pc' = "call"
    /\ UNCHANGED <<url, ref, parsed, gh, dlStatus, start, stack, file_list,
                   idx, zip, log, response>>

\* variant: the archive is opened whatever the list holds
ZipOpen_NoEmptyCheck ==
    /\ pc = "returned"
    /\ exc' = exc
    /\ zip' = << >>
    /\ idx' = 1
    /\ pc' = "zip"
    /\ UNCHANGED <<url, ref, parsed, gh, dlStatus, owner, repo, start, stack,
                   file_list, log, response>>

\* 'if not file_list', then the archive is opened
ZipOpen ==
    /\ pc = "returned"
    /\ IF file_list = << >>
       THEN /\ exc' = HTTPException(404, Detail("No files found in repository"))
            /\ pc' = "raised"
            /\ UNCHANGED <<idx, zip>>
       ELSE /\ exc' = exc
            /\ zip' = << >>
            /\ idx' = 1
            /\ pc' = "zip"
    /\ UNCHANGED <<url, ref, parsed, gh, dlStatus, owner, repo, start, stack,
                   file_list, log, response>>

\* variant: a forbidden fetch is skipped like any other failure
Disposition_Skip403(status_code) ==
    IF status_code # 200 THEN "continue" ELSE "writestr"

\* variant: the body of a failed fetch is written to the archive
Disposition_WriteFailed(status_code) ==
    IF status_code = 403 THEN "raise" ELSE "writestr"

\* what the loop does with a fetched file, by the status of the fetch
Disposition(status_code) ==
    IF status_code = 403 THEN "raise"
    ELSE IF status_code # 200 THEN "continue"
    ELSE "writestr"

\* one iteration of 'for file in file_list'
ZipItem ==
    /\ pc = "zip"
    /\ idx <= Len(file_list)
    /\ LET file   == file_list[idx]
           dl_url == Get(file, "download_url", None)
       IN IF dl_url = None
          THEN /\ idx' = idx + 1
               /\ UNCHANGED <<zip, log, exc, pc>>
          ELSE LET file_resp == RawResponse(dl_url)
                   what      == Disposition(file_resp.status_code)
               IN /\ log' = Append(log, dl_url)
                  /\ IF what = "raise"
                     THEN /\ exc' = HTTPException(403, Detail("Forbidden when fetching file. Provide GITHUB_TOKEN if needed."))
                          /\ pc' = "raised"
                          /\ UNCHANGED <<idx, zip>>
                     ELSE IF what = "continue"
                     THEN /\ idx' = idx + 1
                          /\ UNCHANGED <<zip, exc, pc>>
                     ELSE /\ zip' = Append(zip, [arcname |-> Get(file, "path", Get(file, "name", None)),
                                                 data |-> file_resp.content])
                          /\ idx' = idx + 1
                          /\ UNCHANGED <<exc, pc>>
    /\ UNCHANGED <<url, ref, parsed, gh, dlStatus, owner, repo, start, stack,
                   file_list, response>>

ZipSuffix == <<"_","a","l","l","_","f","i","l","e","s",".","z","i","p">>

\* the archive is closed and handed to the caller
ZipClose ==
    /\ pc = "zip"
    /\ idx > Len(file_list)
    /\ response' = StreamingResponse(zip, "application/zip",
                                     [filename |-> repo \o ZipSuffix])
    /\ pc' = "responded"
    /\ UNCHANGED <<url, ref, parsed, gh, dlStatus, owner, repo, start, stack,
                   file_list, idx, zip, log, exc>>

RawStatuses == {200, 403, 404}

ValidRepoUrl == HttpsGithub \o <<"o","/","r">> \o DotGit

RepoUrls == { ValidRepoUrl, <<"o">>, <<"o","/">> \o DotGit }

InitDownloadAll ==
    /\ url \in RepoUrls
    /\ \E g \in { t \in Trees : WellFormedTree(t) } :
       \E f \in {None} \cup Faults(g) :
       \E nu \in SUBSET FileNodes(g) :
       \E rs \in [FileNodes(g) -> RawStatuses] :
          /\ \A i \in nu : rs[i] = 200
          /\ f # None => (nu = {} /\ \A i \in FileNodes(g) : rs[i] = 200)
          /\ url # ValidRepoUrl => (g.n = 0 /\ f = None)
          /\ gh = [n |-> g.n, parent |-> g.parent, type |-> g.type, fault |-> f,
                   noUrl |-> nu, rawStatus |-> rs]
    /\ start = 0
    /\ gh.fault # None => Requested(gh.fault.node, start)
    /\ ref = None
    /\ parsed = << >>
    /\ dlStatus = 0
    /\ owner = << >> /\ repo = << >>
    /\ pc = "download_all"
    /\ stack = << >>
    /\ file_list = << >>
    /\ idx = 0
    /\ zip = << >>
    /\ log = << >>
    /\ exc = None
    /\ response = None

NextDownloadAll ==
    \/ DownloadAllBegin
    \/ FetchCall
    \/ FetchItem
    \/ FetchReturn
    \/ ZipOpen
    \/ ZipItem
    \/ ZipClose

SpecDownloadAll == InitDownloadAll /\ [][NextDownloadAll]_vars

----------------------------------------------------------------------------
(* Properties of the enumerator.                                           *)

IsPrefix(p, q) == Len(p) <= Len(q) /\ SubSeq(q, 1, Len(p)) = p

\* the regular files of the tree rooted at node s
FilesUnder(s) == { i \in FileNodes(gh) : IsPrefix(PathOf(s), PathOf(i)) }

IsDirectory(s) == IF s = 0 THEN TRUE ELSE gh.type[s] = "dir"

\* the enumerations of a directory in which no contents request fails; the
\* calls run to completion, one step after the other
InitEnumOk == InitEnum /\ gh.fault = None /\ IsDirectory(start)

SpecEnumOk == InitEnumOk /\ [][NextEnum]_vars /\ WF_vars(NextEnum)

\* position of child c in the listing of its directory
ListedAt(c) == CHOOSE k \in 1..Len(Listing(gh.parent[c])) : Listing(gh.parent[c])[k] = c

\* file p comes before file q in the depth-first traversal: where their
\* paths part, p's side is listed first
DepthFirstBefore(p, q) ==
    \E k \in 1..Len(p) :
        /\ k <= Len(q)
        /\ SubSeq(p, 1, k - 1) = SubSeq(q, 1, k - 1)
        /\ p[k] # q[k]
        /\ ListedAt(p[k]) < ListedAt(q[k])

ReturnedPaths == { file_list[k].path : k \in 1..Len(file_list) }

ExactlyTheFiles ==
    /\ Len(file_list) = Cardinality(FilesUnder(start))
    /\ ReturnedPaths = { PathOf(i) : i \in FilesUnder(start) }
    /\ \A a, b \in 1..Len(file_list) : a # b => file_list[a].path # file_list[b].path
    /\ \A k \in 1..Len(file_list) : gh.type[NodeAt(file_list[k].path)] = "file"

\* C6: on a tree of N regular files whose contents requests all succeed the
\* enumeration terminates, and what it returns is exactly N entries with
\* pairwise distinct paths, none of them a directory or another entry type.
C6_EnumeratesEveryFileOnce ==
    /\ []((pc = "returned" /\ IsDirectory(start)) => ExactlyTheFiles)
    /\ <>(pc = "returned")

C6_Witness ==
    /\ pc = "returned" /\ start = 0
    /\ Len(file_list) = 2
    /\ \E d \in 1..gh.n : gh.type[d] = "dir" /\ FilesUnder(d) # {}
    /\ Len(log) = 2

\* C10: the returned list is in depth-first order of the listings, each
\* directory's files standing where the directory stood; a single-file
\* response gives a one-element list.
C10_DepthFirstOrder ==
    pc = "returned" =>
        /\ ReturnedPaths = { PathOf(i) : i \in FilesUnder(start) }
        /\ \A a, b \in 1..Len(file_list) :
               a < b => DepthFirstBefore(file_list[a].path, file_list[b].path)
        /\ ~IsDirectory(start) =>
               (Len(file_list) = 1 /\ file_list[1].path = PathOf(start))

C10_Witness ==
    /\ pc = "returned" /\ start = 0
    /\ Len(file_list) = 2
    /\ Len(file_list[1].path) = 2
    /\ Len(file_list[2].path) = 1

\* the timestamp a formatted reset time stands for
DecodeUtc(t) ==
    (ParseInt(SubSeq(t, 9, 10)) - 1) * 86400 + ParseInt(SubSeq(t, 12, 13)) * 3600
    + ParseInt(SubSeq(t, 15, 16)) * 60 + ParseInt(SubSeq(t, 18, 19))

\* the exception carries what the failing response calls for
MappedFrom(resp, e) ==
    /\ e # None
    /\ e.status_code = resp.status_code
    /\ resp.status_code = 404 => e.detail = Detail("Repository or path not found")
    /\ (resp.status_code = 403 /\ "reset" \in DOMAIN resp.headers) =>
           /\ "reset_time" \in DOMAIN e.detail
           /\ SubSeq(e.detail.reset_time, 1, 8) = <<"1","9","7","0","-","0","1","-">>
           /\ DecodeUtc(e.detail.reset_time) = ParseInt(resp.headers.reset)
    /\ resp.status_code \notin {403, 404} => e.detail = Detail("GitHub API error")

\* C7: a contents request that fails, at any depth, is the last request of
\* the enumeration; the enumeration ends with the error mapped from that
\* status, hands over no list, and has asked for no path twice.
C7_FailureSurfacesImmediately ==
    /\ \A k \in 1..Len(log) :
           ContentsResponse(log[k]).status_code # 200 =>
               /\ k = Len(log)
               /\ pc = "raised"
               /\ MappedFrom(ContentsResponse(log[k]), exc)
               /\ file_list = << >>
               /\ stack = << >>
    /\ \A a, b \in 1..Len(log) : a < b => log[a] # log[b]
    /\ pc = "raised" => (Len(log) > 0 /\ ContentsResponse(log[Len(log)]).status_code # 200)

C7_Witness ==
    /\ pc = "raised"
    /\ Len(log) = 2
    /\ exc.status_code = 403
    /\ "reset_time" \in DOMAIN exc.detail
    /\ DecodeUtc(exc.detail.reset_time) = 90000

----------------------------------------------------------------------------
(* Properties of download_file.                                            *)

\* C8: a request leaves only for a url under the trusted prefix, and a url
\* rejected with 400 has caused no request.
C8_CheckBeforeFetch ==
    /\ \A k \in 1..Len(log) : StartsWith(log[k].get, TrustedPrefix)
    /\ ~StartsWith(url, TrustedPrefix) =>
           /\ log = << >>
           /\ pc # "fetch"
           /\ pc = "raised" => exc.status_code = 400

C8_Witness ==
    /\ pc = "raised"
    /\ exc.status_code = 400
    /\ Contains(url, TrustedPrefix)
    /\ log = << >>

\* C9: for a trusted url, upstream 403 gives 403, every other failing
\* status gives 404, and only a success is relayed.
C9_ForbiddenElseNotFound ==
    (pc \in {"raised", "responded"} /\ StartsWith(url, TrustedPrefix)) =>
        /\ dlStatus = 403 => (exc # None /\ exc.status_code = 403)
        /\ dlStatus \notin {200, 403} => (exc # None /\ exc.status_code = 404)
        /\ response # None => dlStatus = 200

----------------------------------------------------------------------------
(* Properties of download_all_files.                                       *)

\* the loop leaves this entry out of the archive
Omitted(f) ==
    f.download_url = None \/ RawResponse(f.download_url).status_code # 200

\* C1 as stated: a returned archive holds at least one entry.
C1_ArchiveNeverEmpty ==
    response # None => Len(response.body) >= 1

\* C1 amended: an empty file list ends in EmptyRepository (404) and no
\* archive is built for it; a returned archive comes from a non-empty list
\* and has no entry only when every entry of the list was left out.
C1_EmptyListRejected ==
    /\ pc \in {"zip", "responded"} => file_list # << >>
    /\ (exc # None /\ exc.detail = Detail("No files found in repository")) =>
           (exc.status_code = 404 /\ file_list = << >> /\ response = None /\ pc = "raised")
    /\ response # None =>
           /\ file_list # << >>
           /\ Len(response.body) = 0 => \A k \in 1..Len(file_list) : Omitted(file_list[k])

C1_Witness ==
    /\ pc = "raised"
    /\ exc = HTTPException(404, Detail("No files found in repository"))
    /\ Len(log) = 2
    /\ gh.n = 2

\* the raw-content fetches among the requests
IsRawFetch(req) == "raw" \in DOMAIN req

\* C4: a file fetch answered 403 is the last request of the operation, which
\* ends with the 403 error and returns no archive, whatever was fetched
\* before.
C4_ForbiddenAborts ==
    \A k \in 1..Len(log) :
        (IsRawFetch(log[k]) /\ RawResponse(log[k]).status_code = 403) =>
            /\ k = Len(log)
            /\ pc = "raised"
            /\ exc # None /\ exc.status_code = 403
            /\ response = None

C4_Witness ==
    /\ pc = "raised"
    /\ exc.status_code = 403
    /\ Len(zip) = 2
    /\ IsRawFetch(log[Len(log)])

\* C5: the returned archive holds, in list order, one entry per listed file
\* that has a content URL and was fetched with 200, named by the file's path
\* and holding the fetched bytes; all other files are left out.
C5_ArchiveIsTheFetchedFiles ==
    response # None =>
        LET kept == SelectSeq(file_list, LAMBDA f : ~Omitted(f))
        IN /\ Len(response.body) = Len(kept)
           /\ \A k \in 1..Len(kept) :
                  /\ response.body[k].arcname = kept[k].path
                  /\ response.body[k].data = Content(kept[k].path)

C5_Witness ==
    /\ response # None
    /\ Len(file_list) = 3
    /\ Len(response.body) = 2
    /\ \E k \in 1..3 : /\ file_list[k].download_url # None
                       /\ RawResponse(file_list[k].download_url).status_code = 404

====
